---- MODULE Spec2Model ----
(***************************************************************************)
(* Model of tensorflow/python/saved_model/registration.py: the process-    *)
(* wide serialization registry (_CLASS_REGISTRY, _REGISTERED_NAMES) with   *)
(* register_serializable, get_registered_name and get_registered_class.    *)
(*                                                                         *)
(* Python values are modelled as TLA+ strings.  Registered names are real  *)
(* strings built with string concatenation; a class, a predicate and an    *)
(* object instance are each denoted by an identifying string.              *)
(***************************************************************************)
EXTENDS Naturals, Sequences, FiniteSets, TLC

VARIABLES
  _CLASS_REGISTRY,    \* dict: registered name -> <<predicate, class>>
  _REGISTERED_NAMES,  \* list of registered names, in registration order
  call,               \* the most recent call: its arguments and its outcome
  threads             \* per thread: the call it is executing, step by step

vars == <<_CLASS_REGISTRY, _REGISTERED_NAMES, call, threads>>

----------------------------------------------------------------------------
(* Bounds *)

\* Largest number of successful registrations explored.
MaxRegistered == 2

----------------------------------------------------------------------------
(* The Python values the calls are made with *)

\* Python's None (no string below denotes a str equal to it).
None == "None"

\* Classes passed to the decorator.  B is a subclass of A.
Classes == {"A", "B"}

\* A value that is not a class: a plain function object named f.
NonClasses == {"f"}

\* cls.__mro__: the class itself and its base classes.
Bases(cls) == IF cls = "B" THEN {"A", "B"} ELSE {cls}

\* A second class named A, defined in another module ("A2" denotes it).
SameNameClasses == {"A2"}

\* arg.__name__
__name__(arg) == IF arg = "A2" THEN "A" ELSE arg

\* Object instances handed to get_registered_name, and their exact type.
\* "c" is an instance of a class C that is never registered and is
\* unrelated to A and B.
Instances == {"a", "b", "c"}

type(obj) == CASE obj = "a" -> "A"
               [] obj = "b" -> "B"
               [] OTHER     -> "C"

\* Predicate arguments.  The two lambdas are `lambda obj: isinstance(obj, A)`
\* and `lambda obj: isinstance(obj, B)`; "falsy_callable" is a callable
\* object whose truth value is False and which accepts every object when
\* called; "5" is a value that is not callable.
Callables == {"isinstance_A", "isinstance_B", "falsy_callable"}

NonCallables == {"5"}

Predicates == {None} \cup Callables \cup NonCallables

\* callable(predicate)
callable(predicate) == predicate \in Callables

\* bool(predicate): the truth value tested by `not predicate` / `predicate and`.
bool(predicate) == predicate \in {"isinstance_A", "isinstance_B"}

\* predicate(obj)
Apply(predicate, obj) ==
  CASE predicate = "isinstance_A" -> "A" \in Bases(type(obj))
    [] predicate = "isinstance_B" -> "B" \in Bases(type(obj))
    [] OTHER                      -> TRUE

\* The package argument; "Custom" is its default value.
DefaultPackage == "Custom"

Packages == {DefaultPackage, "a"}

\* The name argument; None is its default value.
NameArgs == {None, "A"}

\* tf_inspect.isclass(arg)
isclass(arg) == arg \in Classes \cup SameNameClasses

----------------------------------------------------------------------------
(* Outcomes of a call *)

NoDetail == <<>>

\* A call that returned `value`.  `invoked` lists the predicates the call
\* applied to its argument, in order; it is filled in by the call that
\* applies any.
Return(fn, args, value) ==
  [fn |-> fn, args |-> args, exc |-> None, msg |-> None,
   detail |-> NoDetail, value |-> value, invoked |-> <<>>]

\* A call that raised exception `exc` with a message of kind `msg`,
\* formatted with `detail`.
Raise(fn, args, exc, msg, detail) ==
  [fn |-> fn, args |-> args, exc |-> exc, msg |-> msg,
   detail |-> detail, value |-> None, invoked |-> <<>>]

NoCall == Return("none", <<>>, None)

----------------------------------------------------------------------------
(* get_registered_name *)

\* Variant: the names are visited in registration order.
reversed_forward(seq) == seq

\* reversed(seq)
reversed(seq) == [i \in 1..Len(seq) |-> seq[Len(seq) + 1 - i]]

\* Variant: isinstance(obj, cls) in place of the type equality.
ExactTypeMatch_isinstance(predicate, cls, obj) ==
  ~bool(predicate) /\ cls \in Bases(type(obj))

\* Variant: the `not` is dropped.
ExactTypeMatch_nonot(predicate, cls, obj) ==
  bool(predicate) /\ type(obj) = cls

\* `not predicate and type(obj) == cls`
ExactTypeMatch(predicate, cls, obj) == ~bool(predicate) /\ type(obj) = cls

\* `predicate and predicate(obj)`
PredicateMatch(predicate, obj) == bool(predicate) /\ Apply(predicate, obj)

\* The body of the for loop over the names still to visit.
RECURSIVE scan(_, _)
scan(names, obj) ==
  IF names = <<>> THEN Return("get_registered_name", <<obj>>, None)
  ELSE LET name == Head(names) IN
       IF name \notin DOMAIN _CLASS_REGISTRY
       THEN Raise("get_registered_name", <<obj>>, "KeyError", "key", <<name>>)
       ELSE LET predicate == _CLASS_REGISTRY[name][1]
                cls       == _CLASS_REGISTRY[name][2]
            IN IF ExactTypeMatch(predicate, cls, obj) THEN
                 Return("get_registered_name", <<obj>>, name)
               ELSE IF PredicateMatch(predicate, obj) THEN
                 Return("get_registered_name", <<obj>>, name)
               ELSE scan(Tail(names), obj)

\* The predicates the loop applies to obj (`predicate(obj)`), in order.
RECURSIVE invocations(_, _)
invocations(names, obj) ==
  IF names = <<>> THEN <<>>
  ELSE LET name == Head(names) IN
       IF name \notin DOMAIN _CLASS_REGISTRY THEN <<>>
       ELSE LET predicate == _CLASS_REGISTRY[name][1]
                cls       == _CLASS_REGISTRY[name][2]
            IN IF ExactTypeMatch(predicate, cls, obj) THEN <<>>
               ELSE IF ~bool(predicate) THEN invocations(Tail(names), obj)
               ELSE IF Apply(predicate, obj) THEN <<predicate>>
               ELSE <<predicate>> \o invocations(Tail(names), obj)

get_registered_name(obj) ==
  [scan(reversed(_REGISTERED_NAMES), obj)
     EXCEPT !.invoked = invocations(reversed(_REGISTERED_NAMES), obj)]

----------------------------------------------------------------------------
(* get_registered_class *)

\* Variant: element 0 of the stored tuple is returned.
get_registered_class_predicate(rname) ==
  IF rname \in DOMAIN _CLASS_REGISTRY
  THEN Return("get_registered_class", <<rname>>, _CLASS_REGISTRY[rname][1])
  ELSE Return("get_registered_class", <<rname>>, None)

\* Variant: the KeyError is not caught.
get_registered_class_nocatch(rname) ==
  IF rname \in DOMAIN _CLASS_REGISTRY
  THEN Return("get_registered_class", <<rname>>, _CLASS_REGISTRY[rname][2])
  ELSE Raise("get_registered_class", <<rname>>, "KeyError", "key",
             <<rname>>)

\* try: return _CLASS_REGISTRY[registered_name][1]; except KeyError: None
get_registered_class(rname) ==
  IF rname \in DOMAIN _CLASS_REGISTRY
  THEN Return("get_registered_class", <<rname>>, _CLASS_REGISTRY[rname][2])
  ELSE Return("get_registered_class", <<rname>>, None)

----------------------------------------------------------------------------
(* register_serializable(package, name, predicate)(arg) *)

\* Variant: the predicate is not validated.
PredicateRejected_never(predicate) == FALSE

\* `predicate is not None and not callable(predicate)`
PredicateRejected(predicate) == predicate # None /\ ~callable(predicate)

\* Variant: the decorated value is not validated.
ArgRejected_never(arg) == FALSE

\* `not tf_inspect.isclass(arg)`
ArgRejected(arg) == ~isclass(arg)

\* Variant: the explicit name is ignored.
class_name_fromtype(name, arg) == __name__(arg)

\* class_name = name if name is not None else arg.__name__
class_name(name, arg) == IF name # None THEN name ELSE __name__(arg)

\* registered_name = package + "." + class_name
registered_name(package, name, arg) ==
  package \o "." \o class_name(name, arg)

\* Variant: the membership test is missing.
AlreadyRegistered_never(rname) == FALSE

\* `registered_name in _CLASS_REGISTRY`
AlreadyRegistered(rname) == rname \in DOMAIN _CLASS_REGISTRY

\* Variant: the tuple is stored the wrong way round.
SetItem_swapped(registry, rname, predicate, arg) ==
  [n \in DOMAIN registry \cup {rname} |->
     IF n = rname THEN <<arg, predicate>> ELSE registry[n]]

\* _CLASS_REGISTRY[registered_name] = (predicate, arg)
SetItem(registry, rname, predicate, arg) ==
  [n \in DOMAIN registry \cup {rname} |->
     IF n = rname THEN <<predicate, arg>> ELSE registry[n]]

\* Variant: the name is not recorded.
append_skipped(names, rname) == names

\* Variant: the name is inserted at the front.
append_front(names, rname) == <<rname>> \o names

\* _REGISTERED_NAMES.append(registered_name)
append(names, rname) == Append(names, rname)

\* Variant: the duplicate error is formatted with the rejected request.
register_outcome_requestdetail(package, name, predicate, arg) ==
  LET args  == <<package, name, predicate, arg>>
      rname == registered_name(package, name, arg)
  IN IF PredicateRejected(predicate) THEN
       Raise("register_serializable", args, "ValueError",
             "must be callable", NoDetail)
     ELSE IF ArgRejected(arg) THEN
       Raise("register_serializable", args, "ValueError",
             "must be a class", <<arg>>)
     ELSE IF AlreadyRegistered(rname) THEN
       Raise("register_serializable", args, "ValueError",
             "has already been registered",
             <<rname, <<predicate, arg>>>>)
     ELSE Return("register_serializable", args, arg)

\* What the call raises or returns.
register_outcome(package, name, predicate, arg) ==
  LET args  == <<package, name, predicate, arg>>
      rname == registered_name(package, name, arg)
  IN IF PredicateRejected(predicate) THEN
       Raise("register_serializable", args, "ValueError",
             "must be callable", NoDetail)
     ELSE IF ArgRejected(arg) THEN
       Raise("register_serializable", args, "ValueError",
             "must be a class", <<arg>>)
     ELSE IF AlreadyRegistered(rname) THEN
       Raise("register_serializable", args, "ValueError",
             "has already been registered",
             <<rname, _CLASS_REGISTRY[rname]>>)
     ELSE Return("register_serializable", args, arg)

register_serializable(package, name, predicate, arg) ==
  LET outcome == register_outcome(package, name, predicate, arg)
      rname   == registered_name(package, name, arg)
  IN /\ outcome.exc = None => Len(_REGISTERED_NAMES) < MaxRegistered
     /\ call' = outcome
     /\ IF outcome.exc = None
        THEN /\ _CLASS_REGISTRY' =
                  SetItem(_CLASS_REGISTRY, rname, predicate, arg)
             /\ _REGISTERED_NAMES' = append(_REGISTERED_NAMES, rname)
        ELSE UNCHANGED <<_CLASS_REGISTRY, _REGISTERED_NAMES>>
     /\ UNCHANGED threads

----------------------------------------------------------------------------
(* Threads: the same calls executed step by step *)

Threads == {"t1", "t2"}

\* A thread that is executing no call.
Idle ==
  [pc |-> "done", args |-> <<>>, todo |-> <<>>, idx |-> 0,
   name |-> None, outcome |-> NoCall]

----------------------------------------------------------------------------
(* The lookups as calls *)

ResolveName(obj) ==
  /\ call' = get_registered_name(obj)
  /\ UNCHANGED <<_CLASS_REGISTRY, _REGISTERED_NAMES, threads>>

\* Names looked up: every name a registration can produce and one that
\* none produces.
LookupNames ==
  {registered_name(p, n, c) : p \in Packages, n \in NameArgs, c \in Classes}
    \cup {"Custom.Missing"}

\* Variant: a missing name is inserted, as dict.setdefault would.
ResolveClass_inserting(rname) ==
  /\ call' = get_registered_class(rname)
  /\ _CLASS_REGISTRY' =
       IF rname \in DOMAIN _CLASS_REGISTRY THEN _CLASS_REGISTRY
       ELSE SetItem(_CLASS_REGISTRY, rname, None, None)
  /\ UNCHANGED <<_REGISTERED_NAMES, threads>>

ResolveClass(rname) ==
  /\ call' = get_registered_class(rname)
  /\ UNCHANGED <<_CLASS_REGISTRY, _REGISTERED_NAMES, threads>>

----------------------------------------------------------------------------
(* The program *)

Init ==
  /\ _CLASS_REGISTRY = [n \in {} |-> <<None, None>>]
  /\ _REGISTERED_NAMES = <<>>
  /\ call = NoCall
  /\ threads = [t \in Threads |-> Idle]

Register ==
  \E package \in Packages, name \in NameArgs, predicate \in Predicates,
     arg \in Classes \cup NonClasses :
       register_serializable(package, name, predicate, arg)

LookupName == \E obj \in Instances : ResolveName(obj)

LookupClass == \E rname \in LookupNames : ResolveClass(rname)

Next == Register \/ LookupName \/ LookupClass

Spec == Init /\ [][Next]_vars

----------------------------------------------------------------------------
(* The program called with packages and names that contain the separator *)

JoinPackages == {DefaultPackage, "a", "a.b"}

JoinNameArgs == {None, "c", "b.c"}

JoinClasses == {"A"} \cup SameNameClasses

JoinLookupNames ==
  {registered_name(p, n, c) :
     p \in JoinPackages, n \in JoinNameArgs, c \in JoinClasses}

RegisterJoin ==
  \E package \in JoinPackages, name \in JoinNameArgs, arg \in JoinClasses :
    register_serializable(package, name, None, arg)

LookupClassJoin == \E rname \in JoinLookupNames : ResolveClass(rname)

NextJoin == RegisterJoin \/ LookupClassJoin

SpecJoin == Init /\ [][NextJoin]_vars

----------------------------------------------------------------------------
(* The program run by threads.  A thread switch can occur between any two  *)
(* operations on the shared dict and list; no lock is taken.  The steps    *)
(* of a call that touch neither structure are taken together with the      *)
(* next one that does.                                                     *)

ThreadPackages == {DefaultPackage}

ThreadNameArgs == {None, "A"}

ThreadPredicates == {None, "isinstance_A"}

ThreadInstances == {"a", "b"}

ThreadLookupNames ==
  {registered_name(p, n, c) :
     p \in ThreadPackages, n \in ThreadNameArgs, c \in Classes}

\* Variant: the name is appended before the entry is stored.
decorator_writes_appendfirst == <<"append", "store">>

\* The two writes of the decorator, in program order (lines 99 and 100).
decorator_writes == <<"store", "append">>

\* The name a thread's register call is to be stored under.
thread_rname(t) ==
  registered_name(threads[t].args[1], threads[t].args[2], threads[t].args[4])

\* register_serializable(package, name, predicate)(arg) is called: the
\* predicate and the class are validated and the name is built.
CallRegister(t, package, name, predicate, arg) ==
  LET args == <<package, name, predicate, arg>> IN
  /\ threads[t].pc = "done"
  /\ Len(_REGISTERED_NAMES) < MaxRegistered
  /\ threads' = [threads EXCEPT ![t] =
       IF PredicateRejected(predicate) THEN
         [Idle EXCEPT !.outcome =
            Raise("register_serializable", args, "ValueError",
                  "must be callable", NoDetail)]
       ELSE IF ArgRejected(arg) THEN
         [Idle EXCEPT !.outcome =
            Raise("register_serializable", args, "ValueError",
                  "must be a class", <<arg>>)]
       ELSE [Idle EXCEPT !.pc = "check", !.args = args]]
  /\ UNCHANGED <<_CLASS_REGISTRY, _REGISTERED_NAMES, call>>

\* `if registered_name in _CLASS_REGISTRY`
CheckRegistered(t) ==
  /\ threads[t].pc = "check"
  /\ threads' = [threads EXCEPT ![t] =
       IF AlreadyRegistered(thread_rname(t))
       THEN [@ EXCEPT !.pc = "raise"]
       ELSE [@ EXCEPT !.pc = "write", !.todo = decorator_writes]]
  /\ UNCHANGED <<_CLASS_REGISTRY, _REGISTERED_NAMES, call>>

\* raise ValueError(... .format(registered_name, _CLASS_REGISTRY[registered_name]))
RaiseDuplicate(t) ==
  /\ threads[t].pc = "raise"
  /\ threads' = [threads EXCEPT ![t] =
       [Idle EXCEPT !.outcome =
          Raise("register_serializable", threads[t].args, "ValueError",
                "has already been registered",
                <<thread_rname(t), _CLASS_REGISTRY[thread_rname(t)]>>)]]
  /\ UNCHANGED <<_CLASS_REGISTRY, _REGISTERED_NAMES, call>>

\* The next write of the decorator; after the last one the class is returned.
Write(t) ==
  /\ threads[t].pc = "write"
  /\ IF Head(threads[t].todo) = "store"
     THEN /\ _CLASS_REGISTRY' =
               SetItem(_CLASS_REGISTRY, thread_rname(t),
                       threads[t].args[3], threads[t].args[4])
          /\ UNCHANGED _REGISTERED_NAMES
     ELSE /\ _REGISTERED_NAMES' = append(_REGISTERED_NAMES, thread_rname(t))
          /\ UNCHANGED _CLASS_REGISTRY
  /\ threads' = [threads EXCEPT ![t] =
       IF Tail(threads[t].todo) = <<>>
       THEN [Idle EXCEPT !.outcome =
               Return("register_serializable", threads[t].args,
                      threads[t].args[4])]
       ELSE [@ EXCEPT !.todo = Tail(@)]]
  /\ UNCHANGED call

\* get_registered_name(obj) is called: reversed(_REGISTERED_NAMES) makes an
\* iterator positioned on the last element of the list.
CallGetName(t, obj) ==
  /\ threads[t].pc = "done"
  /\ threads' = [threads EXCEPT ![t] =
       [Idle EXCEPT !.pc = "next", !.args = <<obj>>,
                    !.idx = Len(_REGISTERED_NAMES)]]
  /\ UNCHANGED <<_CLASS_REGISTRY, _REGISTERED_NAMES, call>>

\* `for name in ...`: the iterator yields the element at its position of
\* the list as it is now and steps back, or is exhausted (return None).
NextName(t) ==
  /\ threads[t].pc = "next"
  /\ threads' = [threads EXCEPT ![t] =
       IF threads[t].idx = 0
       THEN [Idle EXCEPT !.outcome =
               Return("get_registered_name", threads[t].args, None)]
       ELSE [@ EXCEPT !.pc = "lookup",
                      !.name = _REGISTERED_NAMES[threads[t].idx],
                      !.idx = @ - 1]]
  /\ UNCHANGED <<_CLASS_REGISTRY, _REGISTERED_NAMES, call>>

\* `predicate, cls = _CLASS_REGISTRY[name]` and the two tests on it.
LookupEntry(t) ==
  LET name == threads[t].name
      obj  == threads[t].args[1]
  IN
  /\ threads[t].pc = "lookup"
  /\ threads' = [threads EXCEPT ![t] =
       IF name \notin DOMAIN _CLASS_REGISTRY
       THEN [Idle EXCEPT !.outcome =
               Raise("get_registered_name", threads[t].args, "KeyError",
                     "key", <<name>>)]
       ELSE IF \/ ExactTypeMatch(_CLASS_REGISTRY[name][1],
                                 _CLASS_REGISTRY[name][2], obj)
               \/ PredicateMatch(_CLASS_REGISTRY[name][1], obj)
       THEN [Idle EXCEPT !.outcome =
               Return("get_registered_name", threads[t].args, name)]
       ELSE [@ EXCEPT !.pc = "next", !.name = None]]
  /\ UNCHANGED <<_CLASS_REGISTRY, _REGISTERED_NAMES, call>>

\* get_registered_class(registered_name): one lookup in the dict.
CallGetClass(t, rname) ==
  /\ threads[t].pc = "done"
  /\ threads' = [threads EXCEPT ![t] =
       [Idle EXCEPT !.outcome = get_registered_class(rname)]]
  /\ UNCHANGED <<_CLASS_REGISTRY, _REGISTERED_NAMES, call>>

ThreadCallRegister ==
  \E t \in Threads, package \in ThreadPackages, name \in ThreadNameArgs,
     predicate \in ThreadPredicates, arg \in Classes :
       CallRegister(t, package, name, predicate, arg)

ThreadCheckRegistered == \E t \in Threads : CheckRegistered(t)

ThreadRaiseDuplicate == \E t \in Threads : RaiseDuplicate(t)

ThreadWrite == \E t \in Threads : Write(t)

ThreadCallGetName ==
  \E t \in Threads, obj \in ThreadInstances : CallGetName(t, obj)

ThreadNextName == \E t \in Threads : NextName(t)

ThreadLookupEntry == \E t \in Threads : LookupEntry(t)

ThreadCallGetClass ==
  \E t \in Threads, rname \in ThreadLookupNames : CallGetClass(t, rname)

NextThreads ==
  \/ ThreadCallRegister
  \/ ThreadCheckRegistered
  \/ ThreadRaiseDuplicate
  \/ ThreadWrite
  \/ ThreadCallGetName
  \/ ThreadNextName
  \/ ThreadLookupEntry
  \/ ThreadCallGetClass

SpecThreads == Init /\ [][NextThreads]_vars

----------------------------------------------------------------------------
(* Vocabulary of the properties *)

\* The call was register_serializable(package, name, predicate)(arg).
IsRegister(c) == c.fn = "register_serializable"

\* The name under which a register call asks to be stored.
RequestedName(c) == c.args[1] \o "." \o
                    (IF c.args[2] # None THEN c.args[2] ELSE c.args[4])

\* The predicate and the decorated value a register call passes.
RequestedPredicate(c) == c.args[3]

RequestedType(c) == c.args[4]

\* The register call passes an absent or callable predicate and a class.
WellFormed(c) ==
  /\ RequestedPredicate(c) \in {None} \cup Callables
  /\ RequestedType(c) \in Classes

\* The two kinds of ValueError the register call raises.
InvalidArgument(c) ==
  c.exc = "ValueError" /\ c.msg \in {"must be callable", "must be a class"}

DuplicateRegistration(c) ==
  c.exc = "ValueError" /\ c.msg = "has already been registered"

Succeeded(c) == c.exc = None

RegistryUnchanged ==
  /\ _CLASS_REGISTRY' = _CLASS_REGISTRY
  /\ _REGISTERED_NAMES' = _REGISTERED_NAMES

\* Number of occurrences of name n in the list names.
Occurrences(names, n) == Cardinality({i \in 1..Len(names) : names[i] = n})

IsPrefix(s, t) == Len(s) <= Len(t) /\ SubSeq(t, 1, Len(s)) = s

\* The entry stored under the i-th registered name matches obj.
EntryMatches(i, obj) ==
  LET entry == _CLASS_REGISTRY[_REGISTERED_NAMES[i]]
  IN ExactTypeMatch(entry[1], entry[2], obj) \/ PredicateMatch(entry[1], obj)

MatchingIndexes(obj) ==
  {i \in 1..Len(_REGISTERED_NAMES) :
     /\ _REGISTERED_NAMES[i] \in DOMAIN _CLASS_REGISTRY
     /\ EntryMatches(i, obj)}

Max(S) == CHOOSE i \in S : \A j \in S : j <= i

\* The name of the most recently registered entry that matches obj, or None.
LatestMatch(obj) ==
  IF MatchingIndexes(obj) = {} THEN None
  ELSE _REGISTERED_NAMES[Max(MatchingIndexes(obj))]

----------------------------------------------------------------------------
(* Properties *)

\* C1: a register call with an absent or callable predicate and a class,
\* whose joined name n is already registered, fails with the duplicate-
\* registration ValueError and leaves _CLASS_REGISTRY and _REGISTERED_NAMES
\* exactly as they were, whatever predicate and class it passes; n still
\* occurs once in _REGISTERED_NAMES.
C1_DuplicateRejected ==
  [][ (/\ IsRegister(call')
       /\ WellFormed(call')
       /\ RequestedName(call') \in DOMAIN _CLASS_REGISTRY)
      => /\ DuplicateRegistration(call')
         /\ RegistryUnchanged
         /\ _CLASS_REGISTRY'[RequestedName(call')]
              = _CLASS_REGISTRY[RequestedName(call')]
         /\ Occurrences(_REGISTERED_NAMES', RequestedName(call')) = 1 ]_vars

\* C1 witness: a second registration of a name was rejected although it
\* passed another predicate and another class than the stored ones.
C1_Witness ==
  /\ IsRegister(call)
  /\ DuplicateRegistration(call)
  /\ RequestedName(call) \in DOMAIN _CLASS_REGISTRY
  /\ _CLASS_REGISTRY[RequestedName(call)][1] # RequestedPredicate(call)
  /\ _CLASS_REGISTRY[RequestedName(call)][2] # RequestedType(call)

\* C2: get_registered_name returns the name of the most recently
\* registered entry that matches the object, and None when no entry
\* matches; this holds of every object in every state and of the value
\* the last get_registered_name call returned.
C2_LatestMatchWins ==
  /\ \A obj \in Instances :
       /\ get_registered_name(obj).exc = None
       /\ get_registered_name(obj).value = LatestMatch(obj)
  /\ call.fn = "get_registered_name"
       => Succeeded(call) /\ call.value = LatestMatch(call.args[1])

\* C2 witness: an instance of A was resolved while an exact-type entry for
\* A and a later predicate entry both match it, and the later name came
\* back.
C2_Witness ==
  /\ call.fn = "get_registered_name"
  /\ call.args[1] = "a"
  /\ Len(_REGISTERED_NAMES) = 2
  /\ _CLASS_REGISTRY[_REGISTERED_NAMES[1]] = <<None, "A">>
  /\ _CLASS_REGISTRY[_REGISTERED_NAMES[2]][1] = "isinstance_A"
  /\ call.value = _REGISTERED_NAMES[2]

\* C3: an entry registered without a predicate matches an object exactly
\* when the object's exact type is the registered class: a name returned
\* for an entry without predicate holds the object's exact type, and while
\* every entry is without predicate an object resolves to a name if and
\* only if its exact type is registered (an instance of subclass B does
\* not resolve through an entry for A).
C3_ExactTypeOnly ==
  call.fn = "get_registered_name" =>
    LET obj == call.args[1] IN
    /\ (call.value \in DOMAIN _CLASS_REGISTRY
          /\ _CLASS_REGISTRY[call.value][1] = None)
         => _CLASS_REGISTRY[call.value][2] = type(obj)
    /\ (\A n \in DOMAIN _CLASS_REGISTRY : _CLASS_REGISTRY[n][1] = None)
         => (call.value # None
               <=> \E n \in DOMAIN _CLASS_REGISTRY :
                      _CLASS_REGISTRY[n][2] = type(obj))

\* C3 witness: with only class A registered, without predicate, an
\* instance of its subclass B was resolved and nothing matched.
C3_Witness ==
  /\ call.fn = "get_registered_name"
  /\ call.args[1] = "b"
  /\ call.value = None
  /\ Len(_REGISTERED_NAMES) = 1
  /\ _CLASS_REGISTRY[_REGISTERED_NAMES[1]] = <<None, "A">>

\* C4 (I1): _REGISTERED_NAMES contains exactly the keys of _CLASS_REGISTRY,
\* each exactly once.
C4_NamesAreTheKeys ==
  /\ {_REGISTERED_NAMES[i] : i \in 1..Len(_REGISTERED_NAMES)}
       = DOMAIN _CLASS_REGISTRY
  /\ \A n \in DOMAIN _CLASS_REGISTRY : Occurrences(_REGISTERED_NAMES, n) = 1

\* C4 witness: two names are registered and a further registration of one
\* of them has just failed.
C4_Witness ==
  /\ Len(_REGISTERED_NAMES) = 2
  /\ IsRegister(call)
  /\ DuplicateRegistration(call)

\* C5: _REGISTERED_NAMES is append-only and records the order of the
\* successful registrations: a successful register call appends exactly
\* its joined name, every other call leaves the list as it is, and the
\* list before a step is a prefix of the list after it.
C5_AppendOnly ==
  [][ /\ IsPrefix(_REGISTERED_NAMES, _REGISTERED_NAMES')
      /\ (IsRegister(call') /\ Succeeded(call'))
           => _REGISTERED_NAMES'
                = Append(_REGISTERED_NAMES, RequestedName(call'))
      /\ ~(IsRegister(call') /\ Succeeded(call'))
           => _REGISTERED_NAMES' = _REGISTERED_NAMES ]_vars

\* C5 witness: a second name was registered successfully and stands last.
C5_Witness ==
  /\ IsRegister(call)
  /\ Succeeded(call)
  /\ Len(_REGISTERED_NAMES) = 2
  /\ _REGISTERED_NAMES[2] = RequestedName(call)
  /\ _REGISTERED_NAMES[1] # RequestedName(call)

\* C6: get_registered_class(n) returns the class T right after n was
\* registered with T, and returns the same class after every later step:
\* no call removes or replaces an entry.
C6_ClassLookupStable ==
  [][ /\ \A n \in LookupNames :
           (IsRegister(call') /\ Succeeded(call') /\ n = RequestedName(call'))
             => get_registered_class(n)'.value = RequestedType(call')
      /\ \A n \in DOMAIN _CLASS_REGISTRY :
           /\ n \in DOMAIN _CLASS_REGISTRY'
           /\ get_registered_class(n)'.value = get_registered_class(n).value
           /\ get_registered_class(n)'.value \in Classes ]_vars

\* C6 witness: with two names registered, the class of one of them was
\* looked up and the class stored at its registration came back.
C6_Witness ==
  /\ call.fn = "get_registered_class"
  /\ call.args[1] \in DOMAIN _CLASS_REGISTRY
  /\ call.value = _CLASS_REGISTRY[call.args[1]][2]
  /\ call.value \in Classes
  /\ Len(_REGISTERED_NAMES) = 2

\* Some entry registered after the i-th one has a predicate that accepts
\* obj (a shadowing predicate).
ShadowingPredicateAfter(i, obj) ==
  \E j \in (i + 1)..Len(_REGISTERED_NAMES) :
    LET predicate == _CLASS_REGISTRY[_REGISTERED_NAMES[j]][1]
    IN predicate # None /\ Apply(predicate, obj)

\* Some entry registered after the i-th one matches obj.
MatchAfter(i, obj) ==
  \E j \in (i + 1)..Len(_REGISTERED_NAMES) : EntryMatches(j, obj)

C8_LookupsNeverRaise ==
  /\ \A obj \in Instances : get_registered_name(obj).exc = None
  /\ \A n \in LookupNames :
       /\ get_registered_class(n).exc = None
       /\ n \notin DOMAIN _CLASS_REGISTRY
            => get_registered_class(n).value = None
  /\ call.fn \in {"get_registered_name", "get_registered_class"}
       => Succeeded(call)
  /\ (call.fn = "get_registered_class"
        /\ call.args[1] \notin DOMAIN _CLASS_REGISTRY) => call.value = None
  /\ (call.fn = "get_registered_name"
        /\ MatchingIndexes(call.args[1]) = {}) => call.value = None

\* C8 witness (class lookup): a name that is not registered was looked up
\* in a registry that holds other names, and None came back.
C8_Witness ==
  /\ call.fn = "get_registered_class"
  /\ call.args[1] \notin DOMAIN _CLASS_REGISTRY
  /\ _REGISTERED_NAMES # <<>>
  /\ Succeeded(call)
  /\ call.value = None

\* C9: a register call whose predicate is provided but not callable fails
\* with the invalid-argument ValueError and leaves _CLASS_REGISTRY and
\* _REGISTERED_NAMES as they were, whatever package, name and decorated
\* value accompany it.
C9_NonCallablePredicateRejected ==
  [][ (/\ IsRegister(call')
       /\ RequestedPredicate(call') # None
       /\ RequestedPredicate(call') \notin Callables)
      => /\ InvalidArgument(call')
         /\ call'.msg = "must be callable"
         /\ RegistryUnchanged ]_vars

\* C9 witness: a registration with a non-callable predicate, a class and a
\* name that is still free was rejected while the registry holds an entry.
C9_Witness ==
  /\ IsRegister(call)
  /\ RequestedPredicate(call) \in NonCallables
  /\ RequestedType(call) \in Classes
  /\ RequestedName(call) \notin DOMAIN _CLASS_REGISTRY
  /\ InvalidArgument(call)
  /\ Len(_REGISTERED_NAMES) = 1

\* C10: a register call whose decorated value is not a class fails with
\* the invalid-argument ValueError and inserts nothing; when its predicate
\* is acceptable the error is the not-a-class one also if the name it
\* would have used is already registered (the class check precedes the
\* duplicate check).
C10_NonClassRejected ==
  [][ (IsRegister(call') /\ RequestedType(call') \notin Classes)
      => /\ InvalidArgument(call')
         /\ RegistryUnchanged
         /\ RequestedPredicate(call') \in {None} \cup Callables
              => call'.msg = "must be a class" ]_vars

\* C10 witness: a non-class was rejected as not a class although the
\* explicit name it was to be registered under is already taken.
C10_Witness ==
  /\ IsRegister(call)
  /\ RequestedType(call) \in NonClasses
  /\ call.args[2] # None
  /\ RequestedName(call) \in DOMAIN _CLASS_REGISTRY
  /\ call.exc = "ValueError"
  /\ call.msg = "must be a class"

\* C12: the duplicate-registration ValueError is formatted with the
\* requested registered name and with the (predicate, class) pair stored
\* in _CLASS_REGISTRY under that name, not with the predicate and class of
\* the rejected request.
C12_DuplicateErrorNamesStoredEntry ==
  (IsRegister(call) /\ DuplicateRegistration(call))
    => /\ RequestedName(call) \in DOMAIN _CLASS_REGISTRY
       /\ call.detail
            = <<RequestedName(call), _CLASS_REGISTRY[RequestedName(call)]>>

\* C12 witness: a registration was rejected as a duplicate, its predicate
\* and class both differ from the stored ones, and the error carries the
\* stored pair.
C12_Witness ==
  /\ IsRegister(call)
  /\ DuplicateRegistration(call)
  /\ Len(call.detail) = 2
  /\ call.detail[1] = RequestedName(call)
  /\ call.detail[2][1] # RequestedPredicate(call)
  /\ call.detail[2][2] # RequestedType(call)

\* The key a register call is to be stored under, spelled out: package,
\* ".", then the explicit name when given and otherwise the name of the
\* class (A for both classes named A).
JoinedKey(c) ==
  c.args[1] \o "." \o
    (IF c.args[2] # None THEN c.args[2]
     ELSE IF c.args[4] \in {"A", "A2"} THEN "A" ELSE c.args[4])

\* C13: the key stored and compared is package + "." + class name, the
\* class name being the explicit name when given and the class's own name
\* otherwise.  A register call of a class succeeds exactly when that
\* joined string is not yet a key, whatever (package, name) pair or class
\* produced the existing key, and then stores its (predicate, class) pair
\* under the joined string and appends the joined string; otherwise it is
\* rejected as a duplicate and changes nothing.
C13_KeyIsJoinedString ==
  [][ (IsRegister(call') /\ RequestedType(call') \in JoinClasses)
      => IF JoinedKey(call') \in DOMAIN _CLASS_REGISTRY
         THEN DuplicateRegistration(call') /\ RegistryUnchanged
         ELSE /\ Succeeded(call')
              /\ DOMAIN _CLASS_REGISTRY'
                   = DOMAIN _CLASS_REGISTRY \cup {JoinedKey(call')}
              /\ _CLASS_REGISTRY'[JoinedKey(call')]
                   = <<RequestedPredicate(call'), RequestedType(call')>>
              /\ \A n \in DOMAIN _CLASS_REGISTRY :
                   _CLASS_REGISTRY'[n] = _CLASS_REGISTRY[n]
              /\ _REGISTERED_NAMES'
                   = Append(_REGISTERED_NAMES, JoinedKey(call')) ]_vars

\* C13 witness: one class is registered under two joined names, one of
\* them a.b.c, and a registration with package "a" and name "b.c" was
\* rejected as a duplicate of a.b.c.
C13_Witness ==
  /\ IsRegister(call)
  /\ DuplicateRegistration(call)
  /\ call.args[1] = "a"
  /\ call.args[2] = "b.c"
  /\ Len(_REGISTERED_NAMES) = 2
  /\ _REGISTERED_NAMES[1] = "a.b.c"
  /\ _CLASS_REGISTRY[_REGISTERED_NAMES[1]][2]
       = _CLASS_REGISTRY[_REGISTERED_NAMES[2]][2]

\* C14 as stated: an entry registered with a predicate is matched only
\* through the predicate: for every entry (p, T) with a predicate p and
\* every object, the entry matches the object exactly when p(obj) is true.
C14_AsStated ==
  \A i \in 1..Len(_REGISTERED_NAMES) : \A obj \in Instances :
    LET entry == _CLASS_REGISTRY[_REGISTERED_NAMES[i]]
    IN entry[1] # None => (EntryMatches(i, obj) <=> Apply(entry[1], obj))

\* C15: get_registered_name and get_registered_class are read-only: the
\* step of either call leaves _CLASS_REGISTRY and _REGISTERED_NAMES as
\* they were, for every argument; and get_registered_class applies no
\* predicate.
C15_LookupsReadOnly ==
  [][ /\ call'.fn \in {"get_registered_name", "get_registered_class"}
           => RegistryUnchanged
      /\ call'.fn = "get_registered_class" => call'.invoked = <<>> ]_vars

\* C15 witness: the class of a name registered with a predicate was looked
\* up; the class came back and no predicate was applied.
C15_Witness ==
  /\ call.fn = "get_registered_class"
  /\ call.args[1] \in DOMAIN _CLASS_REGISTRY
  /\ _CLASS_REGISTRY[call.args[1]][1] = "isinstance_A"
  /\ call.value = _CLASS_REGISTRY[call.args[1]][2]
  /\ call.invoked = <<>>

\* C16: every name get_registered_name returns is a registered name: it
\* is a key of _CLASS_REGISTRY and get_registered_class returns a class
\* for it, never None (the class need not be the object's exact type when
\* the entry has a predicate).
C16_ResolvedNameIsRegistered ==
  /\ \A obj \in Instances :
       get_registered_name(obj).value # None
         => /\ get_registered_name(obj).value \in DOMAIN _CLASS_REGISTRY
            /\ get_registered_class(get_registered_name(obj).value).value
                 \in Classes
  /\ (call.fn = "get_registered_name" /\ call.value # None)
       => /\ call.value \in DOMAIN _CLASS_REGISTRY
          /\ get_registered_class(call.value).value \in Classes

\* C16 witness: an instance of A was resolved, through a predicate, to a
\* name whose registered class is B.
C16_Witness ==
  /\ call.fn = "get_registered_name"
  /\ call.args[1] = "a"
  /\ call.value \in DOMAIN _CLASS_REGISTRY
  /\ _CLASS_REGISTRY[call.value] = <<"isinstance_A", "B">>
  /\ get_registered_class(call.value).value = "B"

\* The entry a successful register call has just stored matches obj.
NewEntryMatches(c, obj) ==
  \/ ExactTypeMatch(RequestedPredicate(c), RequestedType(c), obj)
  \/ PredicateMatch(RequestedPredicate(c), obj)

\* C17: matching is monotone: an object that resolves to a name before a
\* step resolves to a name after it; the name it resolves to changes in a
\* step exactly when the step is a successful registration whose entry
\* matches the object, and the new name is then the one just registered.
C17_MatchMonotone ==
  [][ \A obj \in Instances :
        /\ get_registered_name(obj).value # None
             => get_registered_name(obj)'.value # None
        /\ get_registered_name(obj)'.value # get_registered_name(obj).value
             => /\ IsRegister(call') /\ Succeeded(call')
                /\ NewEntryMatches(call', obj)
                /\ get_registered_name(obj)'.value = RequestedName(call')
        /\ (/\ IsRegister(call') /\ Succeeded(call')
            /\ NewEntryMatches(call', obj))
             => get_registered_name(obj)'.value = RequestedName(call') ]_vars

\* C17 witness: an instance of A that an earlier entry matches now resolves
\* to the name that was registered last, by a successful registration.
C17_Witness ==
  /\ IsRegister(call)
  /\ Succeeded(call)
  /\ Len(_REGISTERED_NAMES) = 2
  /\ EntryMatches(1, "a")
  /\ EntryMatches(2, "a")
  /\ get_registered_name("a").value = _REGISTERED_NAMES[2]
  /\ RequestedName(call) = _REGISTERED_NAMES[2]

\* C11 as stated: while register calls run interleaved with lookups of
\* other threads, no state between their steps has a name in
\* _REGISTERED_NAMES that is not a key of _CLASS_REGISTRY, nor a key of
\* _CLASS_REGISTRY that is not in _REGISTERED_NAMES.
C11_AsStated ==
  {_REGISTERED_NAMES[i] : i \in 1..Len(_REGISTERED_NAMES)}
    = DOMAIN _CLASS_REGISTRY

\* C18: a get_registered_name call interleaved with register calls never
\* looks up a name that is missing from _CLASS_REGISTRY: every name in
\* _REGISTERED_NAMES, and so every name a thread has taken from the list
\* and is about to look up, is a key, and no call ends in a KeyError.
C18_NoMissingKey ==
  /\ \A i \in 1..Len(_REGISTERED_NAMES) :
       _REGISTERED_NAMES[i] \in DOMAIN _CLASS_REGISTRY
  /\ \A t \in Threads :
       /\ threads[t].pc = "lookup"
            => threads[t].name \in DOMAIN _CLASS_REGISTRY
       /\ threads[t].outcome.exc # "KeyError"

\* C18 witness: one thread has taken a name from the list and is about to
\* look it up while another thread has stored its entry and not yet
\* appended its name.
C18_Witness ==
  \E r \in Threads, w \in Threads :
    /\ threads[r].pc = "lookup"
    /\ threads[r].name \in DOMAIN _CLASS_REGISTRY
    /\ threads[w].pc = "write"
    /\ threads[w].todo = <<"append">>
    /\ thread_rname(w) \in DOMAIN _CLASS_REGISTRY

\* C19 as stated: when register calls for one joined name run interleaved,
\* at most one of them succeeds: no step replaces a stored entry, no name
\* occurs twice in _REGISTERED_NAMES, and no two threads have both returned
\* from a registration of the same name.
C19_AsStated ==
  [][ /\ \A n \in DOMAIN _CLASS_REGISTRY :
           _CLASS_REGISTRY'[n] = _CLASS_REGISTRY[n]
      /\ \A n \in DOMAIN _CLASS_REGISTRY' :
           Occurrences(_REGISTERED_NAMES', n) <= 1
      /\ \A t \in Threads, u \in Threads :
           (/\ t # u
            /\ IsRegister(threads'[t].outcome)
            /\ IsRegister(threads'[u].outcome)
            /\ Succeeded(threads'[t].outcome)
            /\ Succeeded(threads'[u].outcome))
             => RequestedName(threads'[t].outcome)
                  # RequestedName(threads'[u].outcome) ]_vars

====
